---- MODULE Spec2Model ----
(***************************************************************************)
(* A model of the posting-list B-tree of src/btree.ts and of the          *)
(* randomized selector quickSelect (src/unnamed/part_000).                 *)
(*                                                                         *)
(* A tree element is a record.  A RoaringBitmap32 is modelled by the set   *)
(* of ids it holds (add = union with a singleton, orInPlace = union,       *)
(* and = intersection, select(i) = the element with i smaller elements).   *)
(* Arrays are sequences; the code's 0-based index i is position i + 1.     *)
(*                                                                         *)
(* The recursive insertion is modelled one call at a time: pc names the    *)
(* method about to run, path the element it runs on (the child positions   *)
(* followed from the root), key/value its arguments.                       *)
(***************************************************************************)
EXTENDS Integers, Sequences, FiniteSets, TLC

\* Capacities.  src/btree.ts sets both to 32; the model scales them down so
\* that leaf, inner-node and root splits happen within the key range below.
MAX_NODE_SIZE == 2
MAX_LEAF_SIZE == 2

\* Keys are 1..MaxKey, document ids 1..MaxDoc.
MaxKey == 5
MaxDoc == 2

Keys == 1..MaxKey
Docs == 1..MaxDoc

\* Bounds of range queries: every key, and one value below and above them.
Bounds == 0..(MaxKey + 1)

VARIABLES root, pc, path, key, value, ref, log,
          qpc, results, cardinality, sortDocVals, cand, ret, pivot, depth,
          bitmap

\* The index and the insertion in progress.  log is the list of the splits
\* made so far by the insertion in progress.
tvars == <<root, pc, path, key, value, ref, log>>

\* The callers' side: the selector's activation and the last range query.
qvars == <<qpc, results, cardinality, sortDocVals, cand, ret, pivot, depth,
           bitmap>>

vars == <<root, pc, path, key, value, ref, log,
          qpc, results, cardinality, sortDocVals, cand, ret, pivot, depth,
          bitmap>>

----------------------------------------------------------------------------
\* Array helpers (Array.prototype.slice / splice with 0-based indices).

Slice(s, from, to) == SubSeq(s, from + 1, to)

SpliceIn(s, i, x) == SubSeq(s, 1, i) \o <<x>> \o SubSeq(s, i + 1, Len(s))

----------------------------------------------------------------------------
\* Elements.

BTreeLeaf(keys, values) ==
    [leaf |-> TRUE, keys |-> keys, values |-> values,
     children |-> <<>>, covering |-> {}]

\* collectAll of a leaf (80-83) or of an inner node (186-188).
CollectAll(e, acc) ==
    IF e.leaf
    THEN acc \cup UNION {e.values[i] : i \in 1..Len(e.values)}
    ELSE acc \cup e.covering

\* The constructor unions every child's collectAll into a fresh covering set.
BTreeNode(keys, children) ==
    [leaf |-> FALSE, keys |-> keys, values |-> <<>>,
     children |-> children,
     covering |-> UNION {CollectAll(children[i], {}) : i \in 1..Len(children)}]

\* Mutant of Full: full only once the capacity is exceeded.
FullLate(e) ==
    IF e.leaf THEN Len(e.keys) > MAX_LEAF_SIZE
              ELSE Len(e.keys) > MAX_NODE_SIZE

Full(e) ==
    IF e.leaf THEN Len(e.keys) >= MAX_LEAF_SIZE
              ELSE Len(e.keys) >= MAX_NODE_SIZE

\* The loop of _findIndex and of _findChildIndex, started at i.
RECURSIVE FindFrom(_, _, _)
FindFrom(keys, k, i) ==
    IF i < Len(keys) /\ k >= keys[i + 1]
    THEN FindFrom(keys, k, i + 1)
    ELSE i

\* The same loop with the comparison key > keys[i].
RECURSIVE FindFromStrict(_, _, _)
FindFromStrict(keys, k, i) ==
    IF i < Len(keys) /\ k > keys[i + 1]
    THEN FindFromStrict(keys, k, i + 1)
    ELSE i

\* Mutant of LeafFindIndex: stops at a key equal to k.
LeafFindIndexStrict(keys, k) == FindFromStrict(keys, k, 0)

LeafFindIndex(keys, k) == FindFrom(keys, k, 0)

\* Mutant of FindChildIndex: a key equal to a separator goes left.
FindChildIndexStrict(keys, k) == FindFromStrict(keys, k, 0)

FindChildIndex(keys, k) == FindFrom(keys, k, 0)

\* Mutant of LeafSplit: the right half starts after the median slot.
LeafSplitDropMedian(e) ==
    LET medianIdx == Len(e.keys) \div 2
    IN  [medianKey |-> e.keys[medianIdx + 1],
         left  |-> BTreeLeaf(Slice(e.keys, 0, medianIdx),
                             Slice(e.values, 0, medianIdx)),
         right |-> BTreeLeaf(Slice(e.keys, medianIdx + 1, Len(e.keys)),
                             Slice(e.values, medianIdx + 1, Len(e.values)))]

\* Mutant of LeafSplit: promotes the last key of the left half.
LeafSplitLowMedian(e) ==
    LET medianIdx == Len(e.keys) \div 2
    IN  [medianKey |-> e.keys[medianIdx],
         left  |-> BTreeLeaf(Slice(e.keys, 0, medianIdx),
                             Slice(e.values, 0, medianIdx)),
         right |-> BTreeLeaf(Slice(e.keys, medianIdx, Len(e.keys)),
                             Slice(e.values, medianIdx, Len(e.values)))]

\* Mutant of LeafSplit: splits at index 0, so the right half is the whole leaf.
LeafSplitAtZero(e) ==
    [medianKey |-> e.keys[1],
     left  |-> BTreeLeaf(<<>>, <<>>),
     right |-> BTreeLeaf(e.keys, e.values)]

LeafSplit(e) ==
    LET medianIdx == Len(e.keys) \div 2
    IN  [medianKey |-> e.keys[medianIdx + 1],
         left  |-> BTreeLeaf(Slice(e.keys, 0, medianIdx),
                             Slice(e.values, 0, medianIdx)),
         right |-> BTreeLeaf(Slice(e.keys, medianIdx, Len(e.keys)),
                             Slice(e.values, medianIdx, Len(e.values)))]

\* Mutant of NodeSplit: the right half's children start at the median.
NodeSplitSharedChild(e) ==
    LET medianIdx == Len(e.keys) \div 2
    IN  [medianKey |-> e.keys[medianIdx + 1],
         left  |-> BTreeNode(Slice(e.keys, 0, medianIdx),
                             Slice(e.children, 0, medianIdx + 1)),
         right |-> BTreeNode(Slice(e.keys, medianIdx + 1, Len(e.keys)),
                             Slice(e.children, medianIdx, Len(e.children)))]

NodeSplit(e) ==
    LET medianIdx == Len(e.keys) \div 2
    IN  [medianKey |-> e.keys[medianIdx + 1],
         left  |-> BTreeNode(Slice(e.keys, 0, medianIdx),
                             Slice(e.children, 0, medianIdx + 1)),
         right |-> BTreeNode(Slice(e.keys, medianIdx + 1, Len(e.keys)),
                             Slice(e.children, medianIdx + 1, Len(e.children)))]

Split(e) == IF e.leaf THEN LeafSplit(e) ELSE NodeSplit(e)

\* The result of get: a posting set, or undefined.
Undefined == [defined |-> FALSE, bits |-> {}]

Found(bits) == [defined |-> TRUE, bits |-> bits]

\* keys[-1] is undefined in JavaScript and equals no key.
LeafGet(e, k) ==
    LET i == LeafFindIndex(e.keys, k) - 1
    IN  IF i >= 0 /\ e.keys[i + 1] = k THEN Found(e.values[i + 1]) ELSE Undefined

RECURSIVE Get(_, _)
Get(e, k) ==
    IF e.leaf
    THEN LeafGet(e, k)
    ELSE Get(e.children[FindChildIndex(e.keys, k) + 1], k)

\* Mutant of LeafInsert: an existing posting set is replaced, not added to.
LeafInsertReplace(e, k, v) ==
    IF LeafGet(e, k).defined
    THEN LET i == LeafFindIndex(e.keys, k) - 1
         IN  [e EXCEPT !.values[i + 1] = {v}]
    ELSE LET i == LeafFindIndex(e.keys, k)
         IN  [e EXCEPT !.keys = SpliceIn(e.keys, i, k),
                       !.values = SpliceIn(e.values, i, {v})]

\* BTreeLeaf.insert, as the new leaf.
LeafInsert(e, k, v) ==
    IF LeafGet(e, k).defined
    THEN LET i == LeafFindIndex(e.keys, k) - 1
         IN  [e EXCEPT !.values[i + 1] = @ \cup {v}]
    ELSE LET i == LeafFindIndex(e.keys, k)
         IN  [e EXCEPT !.keys = SpliceIn(e.keys, i, k),
                       !.values = SpliceIn(e.values, i, {v})]

\* Mutant of AddCovering: the covering set is left as it was.
AddCoveringSkipped(n, v) == n

\* this.covering.add(value) in BTreeNode.insert.
AddCovering(n, v) == [n EXCEPT !.covering = @ \cup {v}]

----------------------------------------------------------------------------
\* Range collection.  Each operator returns the accumulator after the call.

RECURSIVE LeafGtFrom(_, _, _, _)
LeafGtFrom(e, acc, k, i) ==
    IF i >= 0 /\ k > e.keys[i + 1]
    THEN LeafGtFrom(e, acc \cup e.values[i + 1], k, i - 1)
    ELSE acc

LeafCollectGt(e, acc, k) == LeafGtFrom(e, acc, k, Len(e.keys) - 1)

RECURSIVE LeafGteFrom(_, _, _, _)
LeafGteFrom(e, acc, k, i) ==
    IF i >= 0 /\ k >= e.keys[i + 1]
    THEN LeafGteFrom(e, acc \cup e.values[i + 1], k, i - 1)
    ELSE acc

LeafCollectGte(e, acc, k) == LeafGteFrom(e, acc, k, Len(e.keys) - 1)

RECURSIVE LeafLtFrom(_, _, _, _)
LeafLtFrom(e, acc, k, i) ==
    IF i < Len(e.keys) /\ k < e.keys[i + 1]
    THEN LeafLtFrom(e, acc \cup e.values[i + 1], k, i + 1)
    ELSE acc

LeafCollectLt(e, acc, k) == LeafLtFrom(e, acc, k, 0)

RECURSIVE LeafLteFrom(_, _, _, _)
LeafLteFrom(e, acc, k, i) ==
    IF i < Len(e.keys) /\ k <= e.keys[i + 1]
    THEN LeafLteFrom(e, acc \cup e.values[i + 1], k, i + 1)
    ELSE acc

LeafCollectLte(e, acc, k) == LeafLteFrom(e, acc, k, 0)

\* The for loops of the inner node's collectors: the accumulator and the
\* index i when the loop ends.
RECURSIVE NodeGtLoop(_, _, _, _)
NodeGtLoop(e, acc, k, i) ==
    IF i >= 0 /\ e.keys[i + 1] > k
    THEN NodeGtLoop(e, CollectAll(e.children[i + 2], acc), k, i - 1)
    ELSE [acc |-> acc, i |-> i]

RECURSIVE NodeGteLoop(_, _, _, _)
NodeGteLoop(e, acc, k, i) ==
    IF i >= 0 /\ e.keys[i + 1] >= k
    THEN NodeGteLoop(e, CollectAll(e.children[i + 2], acc), k, i - 1)
    ELSE [acc |-> acc, i |-> i]

RECURSIVE NodeLtLoop(_, _, _, _)
NodeLtLoop(e, acc, k, i) ==
    IF i < Len(e.keys) /\ e.keys[i + 1] < k
    THEN NodeLtLoop(e, CollectAll(e.children[i + 1], acc), k, i + 1)
    ELSE [acc |-> acc, i |-> i]

RECURSIVE NodeLteLoop(_, _, _, _)
NodeLteLoop(e, acc, k, i) ==
    IF i < Len(e.keys) /\ e.keys[i + 1] <= k
    THEN NodeLteLoop(e, CollectAll(e.children[i + 1], acc), k, i + 1)
    ELSE [acc |-> acc, i |-> i]

RECURSIVE CollectGt(_, _, _)
CollectGt(e, acc, k) ==
    IF e.leaf
    THEN LeafCollectGt(e, acc, k)
    ELSE LET l == NodeGtLoop(e, acc, k, Len(e.keys) - 1)
         IN  CollectGt(e.children[l.i + 2], l.acc, k)

RECURSIVE CollectGte(_, _, _)
CollectGte(e, acc, k) ==
    IF e.leaf
    THEN LeafCollectGte(e, acc, k)
    ELSE LET l == NodeGteLoop(e, acc, k, Len(e.keys) - 1)
         IN  CollectGte(e.children[l.i + 2], l.acc, k)

RECURSIVE CollectLt(_, _, _)
CollectLt(e, acc, k) ==
    IF e.leaf
    THEN LeafCollectLt(e, acc, k)
    ELSE LET l == NodeLtLoop(e, acc, k, 0)
         IN  CollectLt(e.children[l.i + 1], l.acc, k)

RECURSIVE CollectLte(_, _, _)
CollectLte(e, acc, k) ==
    IF e.leaf
    THEN LeafCollectLte(e, acc, k)
    ELSE LET l == NodeLteLoop(e, acc, k, 0)
         IN  CollectLte(e.children[l.i + 1], l.acc, k)

\* BTree.get / gt / gte / lt / lte on the tree t.
TreeGet(t, k) == Get(t, k)

Gt(t, k) == CollectGt(t, {}, k)

Gte(t, k) == CollectGte(t, {}, k)

Lt(t, k) == CollectLt(t, {}, k)

Lte(t, k) == CollectLte(t, {}, k)

\* RoaringBitmap32.select(i): the i-th smallest element, 0-based.
Select(S, i) == CHOOSE d \in S : Cardinality({x \in S : x < d}) = i

----------------------------------------------------------------------------
\* The element a path leads to, and the tree with that element replaced.

RECURSIVE ElementAt(_, _)
ElementAt(e, p) ==
    IF p = <<>> THEN e ELSE ElementAt(e.children[Head(p)], Tail(p))

RECURSIVE ReplaceAt(_, _, _)
ReplaceAt(e, p, new) ==
    IF p = <<>>
    THEN new
    ELSE [e EXCEPT !.children[Head(p)] = ReplaceAt(@, Tail(p), new)]

----------------------------------------------------------------------------
\* Insertion.

\* No query has been made, or its result was taken.
NoQuery == [op |-> "none"]

\* The record of one split: the depth of the element that was split (the
\* root is at depth 0), and whether it was a leaf.
SplitOf(level, e) == [level |-> level, leaf |-> e.leaf]

Init ==
    /\ root = BTreeLeaf(<<>>, <<>>)
    /\ pc = "idle"
    /\ path = <<>>
    /\ key = 0
    /\ value = 0
    /\ ref = [k \in Keys |-> {}]
    /\ log = <<>>
    /\ qpc = "idle"
    /\ results = {}
    /\ cardinality = 0
    /\ sortDocVals = <<>>
    /\ cand = {}
    /\ ret = 0
    /\ pivot = 0
    /\ depth = 0
    /\ bitmap = NoQuery

\* A caller invokes BTree.insert(k, v).
Call(k, v) ==
    /\ pc = "idle"
    /\ qpc = "idle"
    /\ bitmap = NoQuery
    /\ pc' = "tree"
    /\ key' = k
    /\ value' = v
    /\ UNCHANGED <<root, path, ref, log>>
    /\ UNCHANGED qvars

\* BTree.insert, root full: wrap the two halves in a new root and retry.
TreeInsertSplit ==
    /\ pc = "tree"
    /\ Full(root)
    /\ LET s == Split(root)
       IN  root' = BTreeNode(<<s.medianKey>>, <<s.left, s.right>>)
    /\ log' = Append(log, SplitOf(0, root))
    /\ UNCHANGED <<pc, path, key, value, ref>>
    /\ UNCHANGED qvars

\* BTree.insert, root not full: this.root.insert(key, value).
TreeInsertDescend ==
    /\ pc = "tree"
    /\ ~Full(root)
    /\ pc' = IF root.leaf THEN "leaf" ELSE "node"
    /\ path' = <<>>
    /\ UNCHANGED <<root, key, value, ref, log>>
    /\ UNCHANGED qvars

\* Mutant of NodeInsertSplit: puts a new node over the two halves in the
\* child's place instead of splicing them into this node.
NodeInsertSplitWrap ==
    /\ pc = "node"
    /\ LET n == ElementAt(root, path)
           i == FindChildIndex(n.keys, key)
       IN  /\ Full(n.children[i + 1])
           /\ LET s == Split(n.children[i + 1])
              IN  root' = ReplaceAt(root, path,
                     [n EXCEPT !.children[i + 1] =
                                  BTreeNode(<<s.medianKey>>, <<s.left, s.right>>)])
           /\ log' = Append(log, SplitOf(Len(path) + 1, n.children[i + 1]))
    /\ UNCHANGED <<pc, path, key, value, ref>>
    /\ UNCHANGED qvars

\* BTreeNode.insert, chosen child full: split it, splice, this.insert again.
NodeInsertSplit ==
    /\ pc = "node"
    /\ LET n == ElementAt(root, path)
           i == FindChildIndex(n.keys, key)
       IN  /\ Full(n.children[i + 1])
           /\ LET s == Split(n.children[i + 1])
                  spliced == SpliceIn(n.children, i + 1, s.right)
              IN  root' = ReplaceAt(root, path,
                     [n EXCEPT !.keys = SpliceIn(n.keys, i, s.medianKey),
                               !.children = [spliced EXCEPT ![i + 1] = s.left]])
           /\ log' = Append(log, SplitOf(Len(path) + 1, n.children[i + 1]))
    /\ UNCHANGED <<pc, path, key, value, ref>>
    /\ UNCHANGED qvars

\* BTreeNode.insert, chosen child not full: add to covering and descend.
NodeInsertDescend ==
    /\ pc = "node"
    /\ LET n == ElementAt(root, path)
           i == FindChildIndex(n.keys, key)
       IN  /\ ~Full(n.children[i + 1])
           /\ root' = ReplaceAt(root, path, AddCovering(n, value))
           /\ path' = Append(path, i + 1)
           /\ pc' = IF n.children[i + 1].leaf THEN "leaf" ELSE "node"
    /\ UNCHANGED <<key, value, ref, log>>
    /\ UNCHANGED qvars

\* BTreeLeaf.insert; the outermost BTree.insert then returns.  ref is the
\* naive reference map of what has been inserted.
LeafInsertStep ==
    /\ pc = "leaf"
    /\ root' = ReplaceAt(root, path, LeafInsert(ElementAt(root, path), key, value))
    /\ ref' = [ref EXCEPT ![key] = @ \cup {value}]
    /\ pc' = "idle"
    /\ path' = <<>>
    /\ key' = 0
    /\ value' = 0
    /\ log' = <<>>
    /\ UNCHANGED qvars

Next ==
    \/ \E k \in Keys, v \in Docs : Call(k, v)
    \/ TreeInsertSplit
    \/ TreeInsertDescend
    \/ NodeInsertSplit
    \/ NodeInsertDescend
    \/ LeafInsertStep

Spec == Init /\ [][Next]_vars

\* An insertion in progress runs on: insert is synchronous code that waits
\* for nothing.
InsertRuns ==
    \/ TreeInsertSplit
    \/ TreeInsertDescend
    \/ NodeInsertSplit
    \/ NodeInsertDescend
    \/ LeafInsertStep

SpecFair == Spec /\ WF_vars(InsertRuns)

----------------------------------------------------------------------------
\* The selector.  quickSelect is called on a built index (no insertion in
\* progress) with a non-empty candidate set C, its cardinality, and a map
\* sortDocVals that gives, for each candidate, the one key it is indexed
\* under.

IndexedOnce(d) == Cardinality({k \in Keys : d \in ref[k]}) = 1

KeyOf(d) == CHOOSE k \in Keys : d \in ref[k]

QuickSelectCall(C) ==
    /\ pc = "idle"
    /\ qpc = "idle"
    /\ bitmap = NoQuery
    /\ C # {}
    /\ \A d \in C : IndexedOnce(d)
    /\ qpc' = "run"
    /\ results' = C
    /\ cardinality' = Cardinality(C)
    /\ sortDocVals' = [d \in C |-> KeyOf(d)]
    /\ cand' = C
    /\ depth' = 1
    /\ UNCHANGED <<ret, pivot, bitmap>>
    /\ UNCHANGED tvars

\* Mutant of LeftResults: the candidates that gte(pivotValue) holds.
LeftResultsGte(res, pivotValue) == res \cap Gte(root, pivotValue)

\* leftResults: the candidates that gt(pivotValue) holds.
LeftResults(res, pivotValue) == res \cap Gt(root, pivotValue)

\* One activation of quickSelect: it either returns the pivot document or
\* calls itself on leftResults.
QuickSelectStep ==
    /\ qpc = "run"
    /\ \E pivotIndex \in 0..(cardinality - 1) :
          LET pivotDoc == Select(results, pivotIndex)
              pivotValue == sortDocVals[pivotDoc]
              leftResults == LeftResults(results, pivotValue)
          IN  /\ pivot' = pivotDoc
              /\ IF Cardinality(leftResults) = 0
                 THEN /\ ret' = pivotDoc
                      /\ qpc' = "done"
                      /\ UNCHANGED <<results, cardinality, depth>>
                 ELSE /\ results' = leftResults
                      /\ cardinality' = Cardinality(leftResults)
                      /\ depth' = depth + 1
                      /\ UNCHANGED <<qpc, ret>>
    /\ UNCHANGED <<sortDocVals, cand, bitmap>>
    /\ UNCHANGED tvars

\* The caller takes the result.
QuickSelectReturn ==
    /\ qpc = "done"
    /\ qpc' = "idle"
    /\ results' = {}
    /\ cardinality' = 0
    /\ sortDocVals' = <<>>
    /\ cand' = {}
    /\ ret' = 0
    /\ pivot' = 0
    /\ depth' = 0
    /\ UNCHANGED bitmap
    /\ UNCHANGED tvars

NextSel ==
    \/ Next
    \/ \E C \in SUBSET Docs : QuickSelectCall(C)
    \/ QuickSelectStep
    \/ QuickSelectReturn

SpecSel == Init /\ [][NextSel]_vars

\* An activation of quickSelect runs on: nothing in the function waits.
SpecSelFair == SpecSel /\ WF_vars(QuickSelectStep)

----------------------------------------------------------------------------
\* Queries, statement by statement.  A bitmap object is named by a
\* reference: slot i >= 1 of the leaf at a path is that leaf's values[i-1],
\* slot 0 of an inner node is its covering set, and NewRef is the bitmap
\* made by `new RoaringBitmap32()` in BTree.gt / gte / lt / lte.  A store
\* holds the tree, the content of the new bitmap, and the list of the calls
\* inner nodes made on their children.

Ops == {"gt", "gte", "lt", "lte"}

NewRef == [path |-> <<>>, slot |-> 0 - 1]

NullRef == [path |-> <<>>, slot |-> 0 - 2]

Ref(p, slot) == [path |-> p, slot |-> slot]

\* The references of the bitmaps the tree t holds under the element at p.
RECURSIVE TreeRefs(_, _)
TreeRefs(t, p) ==
    LET e == ElementAt(t, p)
    IN  IF e.leaf
        THEN {Ref(p, i) : i \in 1..Len(e.values)}
        ELSE {Ref(p, 0)} \cup
             UNION {TreeRefs(t, Append(p, c)) : c \in 1..Len(e.children)}

ReadRef(st, r) ==
    IF r = NewRef
    THEN st.acc
    ELSE LET e == ElementAt(st.tree, r.path)
         IN  IF r.slot = 0 THEN e.covering ELSE e.values[r.slot]

WriteRef(st, r, S) ==
    IF r = NewRef
    THEN [st EXCEPT !.acc = S]
    ELSE LET e == ElementAt(st.tree, r.path)
         IN  [st EXCEPT !.tree = ReplaceAt(@, r.path,
                 IF r.slot = 0 THEN [e EXCEPT !.covering = S]
                               ELSE [e EXCEPT !.values[r.slot] = S])]

\* accumulator.orInPlace(bitmap): a names the accumulator, src the bitmap.
OrInPlace(st, a, src) == WriteRef(st, a, ReadRef(st, a) \cup ReadRef(st, src))

\* Mutant of NewBitmap: the root's first bitmap is handed out instead.
NewBitmapAliased(t) == IF t.leaf THEN NewRef ELSE Ref(<<>>, 0)

\* `const bitmap = new RoaringBitmap32()` on the tree t.
NewBitmap(t) == NewRef

\* The loop test of a leaf collector, `key OP this.keys[i]`, key the bound.
LeafTest(op, bound, k) ==
    CASE op = "gt"  -> bound > k
      [] op = "gte" -> bound >= k
      [] op = "lt"  -> bound < k
      [] op = "lte" -> bound <= k

\* Mutant of NodeTest: strict and non-strict tests exchanged.
NodeTestLoose(op, sep, bound) ==
    CASE op = "gt"  -> sep >= bound
      [] op = "gte" -> sep > bound
      [] op = "lt"  -> sep <= bound
      [] op = "lte" -> sep < bound

\* The loop test of an inner node's collector, `this.keys[i] OP key`.
NodeTest(op, sep, bound) ==
    CASE op = "gt"  -> sep > bound
      [] op = "gte" -> sep >= bound
      [] op = "lt"  -> sep < bound
      [] op = "lte" -> sep <= bound

\* collectGt and collectGte walk from the last index down, collectLt and
\* collectLte from index 0 up.
Downward(op) == op \in {"gt", "gte"}

\* collectAll on the element at p.
RECURSIVE StoreLeafAll(_, _, _, _)
StoreLeafAll(st, a, p, i) ==
    IF i < Len(ElementAt(st.tree, p).keys)
    THEN StoreLeafAll(OrInPlace(st, a, Ref(p, i + 1)), a, p, i + 1)
    ELSE st

StoreCollectAll(st, a, p) ==
    IF ElementAt(st.tree, p).leaf
    THEN StoreLeafAll(st, a, p, 0)
    ELSE OrInPlace(st, a, Ref(p, 0))

\* The loop of a leaf collector from index i on.
RECURSIVE StoreLeafWalk(_, _, _, _, _, _)
StoreLeafWalk(op, st, a, p, k, i) ==
    LET e == ElementAt(st.tree, p)
    IN  IF i >= 0 /\ i < Len(e.keys) /\ LeafTest(op, k, e.keys[i + 1])
        THEN StoreLeafWalk(op, OrInPlace(st, a, Ref(p, i + 1)), a, p, k,
                           IF Downward(op) THEN i - 1 ELSE i + 1)
        ELSE st

Called(st, p, c, kind) ==
    [st EXCEPT !.calls = Append(@, [node |-> p, child |-> c, kind |-> kind])]

\* The loop of an inner node's collector from index i on: the store and the
\* index when it ends.  Going down, the child collected is children[i + 1];
\* going up, children[i].
RECURSIVE StoreNodeWalk(_, _, _, _, _, _)
StoreNodeWalk(op, st, a, p, k, i) ==
    LET e == ElementAt(st.tree, p)
        c == IF Downward(op) THEN i + 2 ELSE i + 1
    IN  IF i >= 0 /\ i < Len(e.keys) /\ NodeTest(op, e.keys[i + 1], k)
        THEN StoreNodeWalk(op,
                 StoreCollectAll(Called(st, p, c, "all"), a, Append(p, c)),
                 a, p, k, IF Downward(op) THEN i - 1 ELSE i + 1)
        ELSE [st |-> st, i |-> i]

\* collectGt / collectGte / collectLt / collectLte on the element at p.
RECURSIVE StoreCollect(_, _, _, _, _)
StoreCollect(op, st, a, p, k) ==
    LET e == ElementAt(st.tree, p)
        start == IF Downward(op) THEN Len(e.keys) - 1 ELSE 0
    IN  IF e.leaf
        THEN StoreLeafWalk(op, st, a, p, k, start)
        ELSE LET w == StoreNodeWalk(op, st, a, p, k, start)
                 c == IF Downward(op) THEN w.i + 2 ELSE w.i + 1
             IN  StoreCollect(op, Called(w.st, p, c, "rec"), a, Append(p, c), k)

\* BTree.gt / gte / lt / lte on the tree t: the store after the call and
\* the reference returned.
Range(op, t, k) ==
    LET a == NewBitmap(t)
    IN  [st |-> StoreCollect(op, [tree |-> t, acc |-> {}, calls |-> <<>>],
                             a, <<>>, k),
         ref |-> a]

\* The path of the leaf that get(k) ends in.
RECURSIVE LeafPathOf(_, _, _)
LeafPathOf(e, p, k) ==
    IF e.leaf
    THEN p
    ELSE LET c == FindChildIndex(e.keys, k) + 1
         IN  LeafPathOf(e.children[c], Append(p, c), k)

\* The reference get(k) returns: the leaf's own bitmap, or none.
GetRef(t, k) ==
    LET p == LeafPathOf(t, <<>>, k)
    IN  IF TreeGet(t, k).defined
        THEN Ref(p, LeafFindIndex(ElementAt(t, p).keys, k))
        ELSE NullRef

\* A caller runs gt, gte, lt or lte on the built index.
QueryRange(op, b) ==
    /\ pc = "idle"
    /\ qpc = "idle"
    /\ bitmap = NoQuery
    /\ LET r == Range(op, root, b)
       IN  /\ root' = r.st.tree
           /\ bitmap' = [op |-> op, bound |-> b, ref |-> r.ref,
                         ret |-> ReadRef(r.st, r.ref), calls |-> r.st.calls]
    /\ UNCHANGED <<pc, path, key, value, ref, log>>
    /\ UNCHANGED <<qpc, results, cardinality, sortDocVals, cand, ret, pivot, depth>>

\* A caller runs get: no statement of BTreeNode.get or BTreeLeaf.get writes.
QueryGet(k) ==
    /\ pc = "idle"
    /\ qpc = "idle"
    /\ bitmap = NoQuery
    /\ bitmap' = [op |-> "get", bound |-> k, ref |-> GetRef(root, k),
                  ret |-> TreeGet(root, k).bits, calls |-> <<>>]
    /\ UNCHANGED tvars
    /\ UNCHANGED <<qpc, results, cardinality, sortDocVals, cand, ret, pivot, depth>>

\* The caller drops the result.
QueryReturn ==
    /\ bitmap # NoQuery
    /\ bitmap' = NoQuery
    /\ UNCHANGED tvars
    /\ UNCHANGED <<qpc, results, cardinality, sortDocVals, cand, ret, pivot, depth>>

NextQuery ==
    \/ Next
    \/ \E op \in Ops, b \in Bounds : QueryRange(op, b)
    \/ \E k \in Keys : QueryGet(k)
    \/ QueryReturn

SpecQuery == Init /\ [][NextQuery]_vars

----------------------------------------------------------------------------
\* Vocabulary of the properties.

\* Every element of the subtree of e, e included.
RECURSIVE Elements(_)
Elements(e) ==
    IF e.leaf
    THEN {e}
    ELSE {e} \cup UNION {Elements(e.children[i]) : i \in 1..Len(e.children)}

\* The keys stored in the leaves under e.
RECURSIVE SubtreeKeys(_)
SubtreeKeys(e) ==
    IF e.leaf
    THEN {e.keys[i] : i \in 1..Len(e.keys)}
    ELSE UNION {SubtreeKeys(e.children[i]) : i \in 1..Len(e.children)}

\* The union of the posting sets stored in the leaves under e.
RECURSIVE SubtreePostings(_)
SubtreePostings(e) ==
    IF e.leaf
    THEN UNION {e.values[i] : i \in 1..Len(e.values)}
    ELSE UNION {SubtreePostings(e.children[i]) : i \in 1..Len(e.children)}

\* The (key, posting set) slots of the leaves under e, left to right.
RECURSIVE Concat(_)
Concat(ss) == IF ss = <<>> THEN <<>> ELSE Head(ss) \o Concat(Tail(ss))

RECURSIVE LeafSlots(_)
LeafSlots(e) ==
    IF e.leaf
    THEN [i \in 1..Len(e.keys) |->
            <<e.keys[i], IF i <= Len(e.values) THEN e.values[i] ELSE {}>>]
    ELSE Concat([i \in 1..Len(e.children) |-> LeafSlots(e.children[i])])

\* The slots of the reference map, by ascending key.
HasDocs(slot) == slot[2] # {}

RefSlots == SelectSeq([k \in 1..MaxKey |-> <<k, ref[k]>>], HasDocs)

RECURSIVE Height(_)
Height(e) == IF e.leaf THEN 1 ELSE 1 + Height(e.children[1])

InnerNodes == {e \in Elements(root) : ~e.leaf}

Leaves == {e \in Elements(root) : e.leaf}

\* The documents indexed under k and under no other key.
OnlyUnder(k) == {d \in ref[k] : IndexedOnce(d)}

AllPostings == UNION {ref[k] : k \in Keys}

----------------------------------------------------------------------------
\* C1: after every completed insertion, the covering set of every inner
\* node equals the union of the posting sets in the leaves of its subtree.
CoveringExact ==
    pc = "idle" => \A n \in InnerNodes : n.covering = SubtreePostings(n)

\* A finished tree of height 3 whose root was built by a root split and
\* that holds an inner node, below the root, covering both documents.
CoveringWitness ==
    /\ pc = "idle"
    /\ Height(root) >= 3
    /\ \E n \in InnerNodes : n # root /\ n.covering = Docs

\* C2: for a pair (k, d) with d indexed under k only, d is in gt(b) iff
\* k > b, in gte(b) iff k >= b, in lt(b) iff k < b, in lte(b) iff k <= b.
RangeCorrect ==
    pc = "idle" =>
        \A b \in Bounds : \A k \in Keys : \A d \in OnlyUnder(k) :
            /\ d \in Gt(root, b) <=> k > b
            /\ d \in Gte(root, b) <=> k >= b
            /\ d \in Lt(root, b) <=> k < b
            /\ d \in Lte(root, b) <=> k <= b

\* C3: quickSelect returns a candidate whose key no candidate exceeds.
SelectorCorrect ==
    qpc = "done" =>
        /\ ret \in cand
        /\ \A d \in cand : ~(sortDocVals[d] > sortDocVals[ret])

\* C4: get(k) holds every id inserted under k, and is undefined for a key
\* never inserted.
RoundTrip ==
    pc = "idle" =>
        \A k \in Keys :
            IF ref[k] = {}
            THEN ~TreeGet(root, k).defined
            ELSE TreeGet(root, k).defined /\ ref[k] \subseteq TreeGet(root, k).bits

\* A finished tree of height 3 with an inserted key, a key equal to a
\* separator of the root, and a key never inserted.
RoundTripWitness ==
    /\ pc = "idle"
    /\ Height(root) >= 3
    /\ \E k \in Keys : ref[k] = {}
    /\ \E i \in 1..Len(root.keys) : ref[root.keys[i]] # {}

\* C5: after every insertion the leaves' slots, read left to right, are
\* exactly the slots of the reference map.
MatchesReference ==
    pc = "idle" => LeafSlots(root) = RefSlots

\* A finished tree after leaf splits and the split of an inner node (the
\* full inner root), holding a key with two ids.
MatchesReferenceWitness ==
    /\ pc = "idle"
    /\ Height(root) >= 3
    /\ Len(root.children) >= 2
    /\ \E k \in Keys : Cardinality(ref[k]) >= 2

\* C6: in every leaf the keys are strictly increasing, keys and values have
\* the same length, and every posting set is non-empty.
LeafSorted ==
    pc = "idle" =>
        \A l \in Leaves :
            /\ Len(l.keys) = Len(l.values)
            /\ \A i \in 1..(Len(l.keys) - 1) : l.keys[i] < l.keys[i + 1]
            /\ \A i \in 1..Len(l.values) : l.values[i] # {}

\* A finished tree with several leaves, one of them holding two keys, and a
\* key that was inserted twice.
LeafSortedWitness ==
    /\ pc = "idle"
    /\ Cardinality(Leaves) >= 3
    /\ \E l \in Leaves : Len(l.keys) >= 2
    /\ \E k \in Keys : Cardinality(ref[k]) >= 2

\* C7: when every document is indexed under one key, gt(b) and lte(b)
\* partition the union of all posting sets, and so do gte(b) and lt(b).
RangeComplete ==
    (pc = "idle" /\ \A d \in AllPostings : IndexedOnce(d)) =>
        \A b \in Bounds :
            /\ Gt(root, b) \cup Lte(root, b) = AllPostings
            /\ Gt(root, b) \cap Lte(root, b) = {}
            /\ Gte(root, b) \cup Lt(root, b) = AllPostings
            /\ Gte(root, b) \cap Lt(root, b) = {}

\* C8: in every state, also in the middle of an insertion, no leaf holds
\* more than MAX_LEAF_SIZE keys and no inner node more than MAX_NODE_SIZE.
WithinCapacity ==
    \A e \in Elements(root) :
        Len(e.keys) <= (IF e.leaf THEN MAX_LEAF_SIZE ELSE MAX_NODE_SIZE)

\* In the middle of an insertion, right after a split was spliced into an
\* inner node below the root: that node holds the maximum number of keys.
WithinCapacityWitness ==
    /\ pc = "node"
    /\ path # <<>>
    /\ Len(ElementAt(root, path).keys) = MAX_NODE_SIZE
    /\ \E l \in Leaves : Len(l.keys) = MAX_LEAF_SIZE

\* C9: every inner node has one more child than keys, strictly increasing
\* keys, and under child i only keys < keys[i] and >= keys[i-1].
SeparatorsHold ==
    pc = "idle" =>
        \A n \in InnerNodes :
            /\ Len(n.children) = Len(n.keys) + 1
            /\ \A i \in 1..(Len(n.keys) - 1) : n.keys[i] < n.keys[i + 1]
            /\ \A i \in 1..Len(n.children) : \A k \in SubtreeKeys(n.children[i]) :
                /\ i <= Len(n.keys) => k < n.keys[i]
                /\ i > 1 => k >= n.keys[i - 1]

\* A finished tree of height 3 in which a stored key equals a separator of
\* an inner node with two separators.
SeparatorsWitness ==
    /\ pc = "idle"
    /\ Height(root) >= 3
    /\ \E n \in InnerNodes :
        /\ Len(n.keys) = 2
        /\ n.keys[2] \in SubtreeKeys(n.children[3])

\* C10: a step of an insertion changes get(k) for no key, except the final
\* leaf step, which adds the inserted id to get(key) and changes no other.
FrameStep ==
    \A k \in Keys :
        IF pc = "leaf" /\ k = key
        THEN TreeGet(root', k) = Found(TreeGet(root, k).bits \cup {value})
        ELSE TreeGet(root', k) = TreeGet(root, k)

InsertFrame == [][FrameStep]_vars

\* About to add a second id to an existing key in a leaf of a tree of
\* height 3, other keys being present.
InsertFrameWitness ==
    /\ pc = "leaf"
    /\ Height(root) >= 3
    /\ TreeGet(root, key).defined
    /\ value \notin TreeGet(root, key).bits
    /\ \E k \in Keys : k # key /\ TreeGet(root, k).defined

\* C11: a get, gt, gte, lt or lte call leaves the whole tree as it was, and
\* the bitmap a range query returns is none of the tree's bitmaps.
QueryStep ==
    (bitmap = NoQuery /\ bitmap' # NoQuery) =>
        /\ root' = root
        /\ bitmap'.op \in Ops => bitmap'.ref \notin TreeRefs(root', <<>>)

QueriesPure == [][QueryStep]_vars

\* A range query on a tree of height 3 has returned a non-empty set, part
\* of it taken from a covering set.
QueriesPureWitness ==
    /\ bitmap # NoQuery
    /\ bitmap.op \in Ops
    /\ Height(root) >= 3
    /\ bitmap.ret # {}
    /\ \E j \in 1..Len(bitmap.calls) :
         /\ bitmap.calls[j].kind = "all"
         /\ ~ElementAt(root, Append(bitmap.calls[j].node, bitmap.calls[j].child)).leaf

\* The key k satisfies the range operator op against the bound b.
Satisfies(op, k, b) ==
    CASE op = "gt"  -> k > b
      [] op = "gte" -> k >= b
      [] op = "lt"  -> k < b
      [] op = "lte" -> k <= b

\* The children of the node at p that the last query called with kind.
CalledChildren(p, kind) ==
    {bitmap.calls[j].child : j \in
        {j \in 1..Len(bitmap.calls) :
            bitmap.calls[j].node = p /\ bitmap.calls[j].kind = kind}}

CallCount(p, kind) ==
    Cardinality({j \in 1..Len(bitmap.calls) :
                    bitmap.calls[j].node = p /\ bitmap.calls[j].kind = kind})

VisitedNodes == {bitmap.calls[j].node : j \in 1..Len(bitmap.calls)}

\* C16: at every inner node a range query visits, a child taken whole by
\* collectAll holds only keys that satisfy the operator, a child neither
\* taken whole nor descended into holds no such key, and exactly one child
\* is descended into.
RangeCallsSound ==
    (bitmap # NoQuery /\ bitmap.op \in Ops) =>
        /\ ~root.leaf => <<>> \in VisitedNodes
        /\ \A p \in VisitedNodes :
            LET n == ElementAt(root, p)
                whole == CalledChildren(p, "all")
                into == CalledChildren(p, "rec")
            IN  /\ CallCount(p, "rec") = 1
                /\ CallCount(p, "all") = Cardinality(whole)
                /\ whole \cap into = {}
                /\ \A c \in whole : \A k \in SubtreeKeys(n.children[c]) :
                        Satisfies(bitmap.op, k, bitmap.bound)
                /\ \A c \in (1..Len(n.children)) \ (whole \cup into) :
                        \A k \in SubtreeKeys(n.children[c]) :
                            ~Satisfies(bitmap.op, k, bitmap.bound)

\* A query visited an inner node with three children: one taken whole, one
\* descended into, one left out although it holds keys.
RangeCallsWitness ==
    /\ bitmap # NoQuery
    /\ bitmap.op \in Ops
    /\ \E p \in VisitedNodes :
        LET n == ElementAt(root, p)
        IN  /\ Len(n.children) = 3
            /\ CalledChildren(p, "all") # {}
            /\ \E c \in 1..3 :
                /\ c \notin CalledChildren(p, "all") \cup CalledChildren(p, "rec")
                /\ SubtreeKeys(n.children[c]) # {}

\* Vocabulary of the steps of an insertion.

Capacity(e) == IF e.leaf THEN MAX_LEAF_SIZE ELSE MAX_NODE_SIZE

\* The step is a call of split(): on the root, or on the chosen child of
\* the inner node that is running insert.
RootSplitStep == Len(log') = Len(log) + 1 /\ pc = "tree"

ChildSplitStep == Len(log') = Len(log) + 1 /\ pc = "node"

SplitStep == RootSplitStep \/ ChildSplitStep

\* The inner node running insert, and the child it chooses for key.
Running == ElementAt(root, path)

ChosenChild == Running.children[FindChildIndex(Running.keys, key) + 1]

\* The element split() is called on in a split step.
SplitElement == IF pc = "tree" THEN root ELSE ChosenChild

\* After the step, insert is about to run on this element: every step that
\* ends with pc "node" or "leaf" is a call of that element's insert.
InsertCalled == pc' \in {"node", "leaf"}

Callee == ElementAt(root', path')

\* C12 as stated: split() runs on full elements only, insert is called on
\* elements that are not full only, and a parent that receives a promoted
\* key held fewer than MAX_NODE_SIZE keys before.
InsertOnlyOnNonFullStep ==
    /\ SplitStep => Len(SplitElement.keys) = Capacity(SplitElement)
    /\ InsertCalled => Len(Callee.keys) < Capacity(Callee)
    /\ ChildSplitStep => Len(Running.keys) < MAX_NODE_SIZE

InsertOnlyOnNonFull == [][InsertOnlyOnNonFullStep]_vars

\* C12 amended: as above, except that the call `this.insert(key, value)`
\* an inner node makes on itself after the splice may find that node with
\* exactly MAX_NODE_SIZE keys.
PreemptiveSplitStep ==
    /\ SplitStep => Len(SplitElement.keys) = Capacity(SplitElement)
    /\ (InsertCalled /\ ~ChildSplitStep) => Len(Callee.keys) < Capacity(Callee)
    /\ ChildSplitStep =>
        /\ Len(Running.keys) < MAX_NODE_SIZE
        /\ Callee = ElementAt(root', path)
        /\ Len(Callee.keys) = Len(Running.keys) + 1

PreemptiveSplit == [][PreemptiveSplitStep]_vars

\* An inner node below the root is running insert again after a splice
\* that filled it to MAX_NODE_SIZE keys.
PreemptiveSplitWitness ==
    /\ pc = "node"
    /\ path # <<>>
    /\ log # <<>>
    /\ log[Len(log)].level = Len(path) + 1
    /\ Len(Running.keys) = MAX_NODE_SIZE

\* The halves a split step puts into the tree and the key it promotes:
\* children 0 and 1 of the new root, or children i and i + 1 of the inner
\* node running insert, with the promoted key between them.
ChosenIndex == FindChildIndex(Running.keys, key) + 1

SplitLeft ==
    IF pc = "tree" THEN root'.children[1]
                   ELSE ElementAt(root', path).children[ChosenIndex]

SplitRight ==
    IF pc = "tree" THEN root'.children[2]
                   ELSE ElementAt(root', path).children[ChosenIndex + 1]

Promoted ==
    IF pc = "tree" THEN root'.keys[1]
                   ELSE ElementAt(root', path).keys[ChosenIndex]

SeqSet(q) == {q[i] : i \in 1..Len(q)}

\* The last split of the insertion in progress has just been made: the
\* method that made it has not moved on.
JustSplit ==
    /\ log # <<>>
    /\ \/ pc = "tree" /\ log[Len(log)].level = 0
       \/ pc = "node" /\ log[Len(log)].level = Len(path) + 1

\* C13: a split leaf of size n, with median = n div 2, yields a left leaf
\* with keys/values [0, median), a right leaf with [median, n), promotes
\* keys[median], and left followed by right is the original leaf.
LeafSplitStep ==
    (SplitStep /\ SplitElement.leaf) =>
        LET e == SplitElement
            n == Len(e.keys)
            median == n \div 2
        IN  /\ n = MAX_LEAF_SIZE
            /\ SplitLeft.leaf /\ SplitRight.leaf
            /\ SplitLeft.keys = SubSeq(e.keys, 1, median)
            /\ SplitLeft.values = SubSeq(e.values, 1, median)
            /\ SplitRight.keys = SubSeq(e.keys, median + 1, n)
            /\ SplitRight.values = SubSeq(e.values, median + 1, n)
            /\ Promoted = e.keys[median + 1]
            /\ SplitLeft.keys \o SplitRight.keys = e.keys
            /\ SplitLeft.values \o SplitRight.values = e.values

LeafSplitHalves == [][LeafSplitStep]_vars

\* A full leaf has just been split.
LeafSplitWitness ==
    /\ JustSplit
    /\ log[Len(log)].leaf

\* C14 as stated: after a leaf split the promoted key is in neither half.
MedianDroppedStep ==
    (SplitStep /\ SplitElement.leaf) =>
        /\ Promoted \notin SeqSet(SplitLeft.keys)
        /\ Promoted \notin SeqSet(SplitRight.keys)

MedianDropped == [][MedianDroppedStep]_vars

\* C14 amended: the promoted key is not in the left half; it stays in the
\* right half, as its first key with its posting set, and is also the
\* separator between the two halves in the parent.
MedianKeptRightStep ==
    (SplitStep /\ SplitElement.leaf) =>
        LET e == SplitElement
            median == Len(e.keys) \div 2
            parent == IF pc = "tree" THEN root' ELSE ElementAt(root', path)
        IN  /\ Promoted \notin SeqSet(SplitLeft.keys)
            /\ Len(SplitRight.keys) >= 1
            /\ SplitRight.keys[1] = Promoted
            /\ SplitRight.values[1] = e.values[median + 1]
            /\ Cardinality({i \in 1..Len(SplitRight.keys) :
                               SplitRight.keys[i] = Promoted}) = 1
            /\ Cardinality({i \in 1..Len(parent.keys) :
                               parent.keys[i] = Promoted}) = 1

MedianKeptRight == [][MedianKeptRightStep]_vars

\* A leaf below an inner node with other separators has just been split.
MedianKeptRightWitness ==
    /\ JustSplit
    /\ log[Len(log)].leaf
    /\ pc = "node"
    /\ Len(Running.keys) >= 2

\* What a child adds to the covering set of a node built over it.
Contribution(c) ==
    IF c.leaf THEN UNION {c.values[i] : i \in 1..Len(c.values)} ELSE c.covering

\* C15: a split inner node with n keys yields a left node with keys
\* [0, median) and children [0, median], a right node with keys (median, n)
\* and children (median, n]; the key at median is promoted and in neither
\* half, every child is in exactly one half, and each half's covering set
\* is the union of its children's contributions.
NodeSplitStep ==
    (SplitStep /\ ~SplitElement.leaf) =>
        LET e == SplitElement
            n == Len(e.keys)
            median == n \div 2
        IN  /\ n = MAX_NODE_SIZE
            /\ Len(e.children) = n + 1
            /\ ~SplitLeft.leaf /\ ~SplitRight.leaf
            /\ SplitLeft.keys = SubSeq(e.keys, 1, median)
            /\ SplitLeft.children = SubSeq(e.children, 1, median + 1)
            /\ SplitRight.keys = SubSeq(e.keys, median + 2, n)
            /\ SplitRight.children = SubSeq(e.children, median + 2, n + 1)
            /\ Promoted = e.keys[median + 1]
            /\ Promoted \notin SeqSet(SplitLeft.keys) \cup SeqSet(SplitRight.keys)
            /\ SplitLeft.children \o SplitRight.children = e.children
            /\ SplitLeft.covering =
                 UNION {Contribution(SplitLeft.children[i]) :
                           i \in 1..Len(SplitLeft.children)}
            /\ SplitRight.covering =
                 UNION {Contribution(SplitRight.children[i]) :
                           i \in 1..Len(SplitRight.children)}

NodeSplitHalves == [][NodeSplitStep]_vars

\* A full inner node below the root has just been split, and the halves
\* cover documents.
NodeSplitWitness ==
    /\ JustSplit
    /\ ~log[Len(log)].leaf
    /\ pc = "node"
    /\ Running.covering # {}

\* A step in which quickSelect calls itself.
Recursion == qpc = "run" /\ depth' = depth + 1

StrictSubsetStep ==
    Recursion =>
        /\ results' \subseteq results
        /\ results' # results
        /\ pivot' \in results
        /\ pivot' \notin results'
        /\ cardinality' = Cardinality(results')
        /\ cardinality' < cardinality

\* C17: each recursive call of quickSelect gets a strict subset of the
\* caller's candidates, without the sampled pivot document; the recursion
\* depth never exceeds the initial cardinality; every call returns.
SelectorTerminates ==
    /\ [][StrictSubsetStep]_vars
    /\ [](qpc # "idle" => depth + Cardinality(results) <= Cardinality(cand) + 1)
    /\ [](depth <= Cardinality(cand))
    /\ (qpc = "run") ~> (qpc = "done")

\* quickSelect has returned from a recursive call.
SelectorTerminatesWitness ==
    /\ qpc = "done"
    /\ depth >= 2
    /\ results # cand

\* Both halves of a split hold fewer keys than their capacity; the root that
\* is retried after a root split is not full; the child that the re-run
\* insert of an inner node selects after a child split is not full.
SmallerHalvesStep ==
    /\ SplitStep =>
        /\ Len(SplitLeft.keys) < Capacity(SplitLeft)
        /\ Len(SplitRight.keys) < Capacity(SplitRight)
        /\ Len(SplitLeft.keys) < Len(SplitElement.keys)
        /\ Len(SplitRight.keys) < Len(SplitElement.keys)
        /\ SplitLeft.leaf = SplitElement.leaf
        /\ SplitRight.leaf = SplitElement.leaf
    /\ RootSplitStep =>
        /\ pc' = "tree"
        /\ Len(root'.keys) < Capacity(root')
    /\ ChildSplitStep =>
        LET n == ElementAt(root', path')
            c == n.children[FindChildIndex(n.keys, key') + 1]
        IN  /\ pc' = "node" /\ path' = path /\ key' = key
            /\ c \in {SplitLeft, SplitRight}
            /\ Len(c.keys) < Capacity(c)

\* The splits of the insertion in progress are at strictly increasing levels.
OneSplitPerLevel ==
    \A i, j \in 1..Len(log) : i < j => log[i].level < log[j].level

\* C18: every insert call returns, having split at most once per tree
\* level: both halves of a split are below capacity, so the retry after a
\* root split descends and the re-run insert after a child split selects a
\* non-full child.
InsertTerminates ==
    /\ [][SmallerHalvesStep]_vars
    /\ []OneSplitPerLevel
    /\ [](Len(log) <= Height(root))
    /\ (pc # "idle") ~> (pc = "idle")

\* An insertion has split at two levels, one of them the root, and has
\* reached its leaf.
InsertTerminatesWitness ==
    /\ pc = "leaf"
    /\ Len(log) >= 2
    /\ log[1].level = 0

\* The depths, counted from e, at which the leaves below e lie.
RECURSIVE LeafDepths(_)
LeafDepths(e) ==
    IF e.leaf THEN {1}
    ELSE UNION {{d + 1 : d \in LeafDepths(e.children[i])} :
                   i \in 1..Len(e.children)}

DeepestLeaf(e) == CHOOSE d \in LeafDepths(e) : \A o \in LeafDepths(e) : o <= d

Balanced ==
    /\ Cardinality(LeafDepths(root)) = 1
    /\ \A n \in InnerNodes :
          \A i, j \in 1..Len(n.children) : n.children[i].leaf = n.children[j].leaf

HeightStep ==
    /\ DeepestLeaf(root') >= DeepestLeaf(root)
    /\ DeepestLeaf(root') # DeepestLeaf(root) => RootSplitStep
    /\ RootSplitStep =>
        /\ DeepestLeaf(root') = DeepestLeaf(root) + 1
        /\ ~root'.leaf
        /\ Len(root'.keys) = 1
        /\ Len(root'.children) = 2

\* C19: every leaf is at the same depth and the children of an inner node
\* are all leaves or all inner nodes; the height grows only when the root
\* is split, by one, the new root having one separator and two children,
\* and never shrinks.
HeightBalanced == []Balanced /\ [][HeightStep]_vars

\* An inner root has just been split, with more than one leaf below each half.
HeightBalancedWitness ==
    /\ JustSplit
    /\ pc = "tree"
    /\ ~log[Len(log)].leaf
    /\ DeepestLeaf(root) >= 3
    /\ Cardinality(Leaves) >= 4

====
